---- MODULE Spec2Model ----
(***************************************************************************)
(* The asynchronous logger of vizn3r/go-lib (package logger) and the       *)
(* config loader that uses it (package conf).                              *)
(*                                                                         *)
(* A Logger is a buffered channel logCh of capacity 100, a worker          *)
(* goroutine run() that ranges over it, a completion channel done and a    *)
(* few unsynchronised fields (maxLogLevel, printTime, closed).  Caller     *)
(* goroutines enqueue with Log/Debug/Info/Warn/Error/Print/Fatal, change   *)
(* the configuration with SetLevel/SetPrintTime and shut down with Close.  *)
(*                                                                         *)
(* Texts are sequences of one-character strings; an ANSI escape sequence   *)
(* is one token of such a sequence.                                        *)
(***************************************************************************)
EXTENDS Integers, Sequences, FiniteSets, TLC

(***************************************************************************)
(* Bounds of the model.                                                    *)
(***************************************************************************)
NumCallers == 2      \* caller goroutines
MaxMsgs == 2         \* enqueue calls made in Spec
MaxSets == 1         \* SetLevel / SetPrintTime calls made
MaxCloses == 2       \* Close calls made
BurstMsgs == 102     \* Info calls made in SpecBP (fills the queue and beyond)
MaxPieces == 2       \* fragments a text given to colorString is made of
MaxConfCalls == 3    \* calls of package conf made in SpecConf

Callers == 1..NumCallers

(***************************************************************************)
(* ANSI colors (lines 14-24).  Purple and Magenta are the same code.       *)
(***************************************************************************)
Reset == "ESC[0m"
Red == "ESC[31m"
Green == "ESC[32m"
Yellow == "ESC[33m"
Blue == "ESC[34m"
Purple == "ESC[35m"
Magenta == "ESC[35m"
Grey == "ESC[90m"
Cyan == "ESC[36m"

(***************************************************************************)
(* The highlight table: keyword -> color.  A Go map: its iteration order   *)
(* is not fixed.                                                           *)
(***************************************************************************)
highlights ==
  { [word |-> <<"O", "K">>, color |-> Green],
    [word |-> <<"E", "R", "R", "O", "R">>, color |-> Red],
    [word |-> <<"F", "A", "I", "L">>, color |-> Red],
    [word |-> <<"G", "E", "T">>, color |-> Blue],
    [word |-> <<"P", "O", "S", "T">>, color |-> Cyan],
    [word |-> <<"P", "U", "T">>, color |-> Yellow],
    [word |-> <<"D", "E", "L", "E", "T", "E">>, color |-> Purple],
    [word |-> <<"P", "A", "T", "C", "H">>, color |-> Magenta],
    [word |-> <<"O", "P", "T", "I", "O", "N", "S">>, color |-> Cyan],
    [word |-> <<"H", "E", "A", "D">>, color |-> Blue] }

(***************************************************************************)
(* LogLevel (lines 64-71): an int; the named levels are 0..5.              *)
(***************************************************************************)
LevelDebug == 0
LevelInfo == 1
LevelWarn == 2
LevelError == 3
LevelFatal == 4
LevelPrint == 5

NamedLevels == {LevelDebug, LevelInfo, LevelWarn, LevelError, LevelFatal, LevelPrint}

\* LogLevel is an int: Log and SetLevel accept values outside the named ones.
LogLevel == (LevelDebug - 1)..(LevelPrint + 1)

\* Capacity of logCh: make(chan logMessage, 100).
QueueCap == 100

(***************************************************************************)
(* Strings.                                                                *)
(***************************************************************************)
\* Does word w occur in s at position i?
MatchAt(s, w, i) ==
  /\ i + Len(w) - 1 <= Len(s)
  /\ \A k \in 1..Len(w) : s[i + k - 1] = w[k]

Occurs(s, w) == \E i \in 1..Len(s) : MatchAt(s, w, i)

\* strings.ReplaceAll(s, w, r) for a non-empty w: the non-overlapping
\* occurrences of w, found left to right, are replaced by r.
RECURSIVE ReplaceFrom(_, _, _, _)
ReplaceFrom(s, w, r, i) ==
  IF i > Len(s) THEN <<>>
  ELSE IF MatchAt(s, w, i) THEN r \o ReplaceFrom(s, w, r, i + Len(w))
  ELSE <<s[i]>> \o ReplaceFrom(s, w, r, i + 1)

ReplaceAll(s, w, r) == ReplaceFrom(s, w, r, 1)

\* Colorize that replaces the first occurrence only (strings.Replace with
\* n = 1).
ColorizeFirst(s, h) ==
  IF ~ Occurs(s, h.word) THEN s
  ELSE LET i == CHOOSE k \in 1..Len(s) :
                   /\ MatchAt(s, h.word, k)
                   /\ \A j \in 1..(k - 1) : ~ MatchAt(s, h.word, j)
       IN  SubSeq(s, 1, i - 1) \o <<h.color>> \o h.word \o <<Reset>>
             \o SubSeq(s, i + Len(h.word), Len(s))

\* Colorize that leaves out the reset code.
ColorizeNoReset(s, h) == ReplaceAll(s, h.word, <<h.color>> \o h.word)

\* One iteration of colorString's loop: fmt.Sprintf("%s%s%s", color, word, Reset).
Colorize(s, h) == ReplaceAll(s, h.word, <<h.color>> \o h.word \o <<Reset>>)

\* colorString(s): the results of the loop over highlights, one for each
\* iteration order of the map.  A keyword that does not occur in s when its
\* turn comes leaves s unchanged, and a replacement inserts only escape codes,
\* so it creates no occurrence: the orders differ only in which of the
\* occurring keywords comes next.
RECURSIVE ColorLoop(_, _)
ColorLoop(s, rest) ==
  LET occ == {h \in rest : Occurs(s, h.word)}
  IN  IF occ = {} THEN {s}
      ELSE UNION {ColorLoop(Colorize(s, h), rest \ {h}) : h \in occ}

colorString(s) == ColorLoop(s, highlights)

\* fmt.Sprint(v...) of string operands: their concatenation.
RECURSIVE Sprint(_)
Sprint(v) == IF v = <<>> THEN <<>> ELSE Head(v) \o Sprint(Tail(v))

\* Printf(f) with no operands, as run() calls it for Debug..Fatal: the message
\* is the format.  "%%" prints "%", "%" and a verb prints "%!v(MISSING)", a
\* final "%" prints "%!(NOVERB)".
RECURSIVE PrintfNoArgs(_)
PrintfNoArgs(f) ==
  IF f = <<>> THEN <<>>
  ELSE IF Head(f) # "%" THEN <<Head(f)>> \o PrintfNoArgs(Tail(f))
  ELSE IF Len(f) = 1 THEN <<"%!(NOVERB)">>
  ELSE IF f[2] = "%" THEN <<"%">> \o PrintfNoArgs(Tail(Tail(f)))
  ELSE <<"%!", f[2], "(MISSING)">> \o PrintfNoArgs(Tail(Tail(f)))

\* The level tag and its color in run()'s switch; none for Print and for
\* values that are no named level.
LevelTag(level) ==
  CASE level = LevelInfo -> <<Blue, "[INFO]", Reset, " ">>
    [] level = LevelWarn -> <<Yellow, "[WARN]", Reset, " ">>
    [] level = LevelError -> <<Red, "[ERROR]", Reset, " ">>
    [] level = LevelDebug -> <<Grey, "[DEBUG]", Reset, " ">>
    [] level = LevelFatal -> <<Red, "[FATAL]", Reset, " ">>
    [] OTHER -> <<>>

\* Format with the default case tagged like Info.
FormatDefaultTagged(level, msg) ==
  IF level \in {LevelInfo, LevelWarn, LevelError, LevelDebug, LevelFatal}
  THEN {PrintfNoArgs(LevelTag(level) \o msg)}
  ELSE IF level = LevelPrint
  THEN {<<Reset>> \o c : c \in colorString(msg)}
  ELSE {PrintfNoArgs(LevelTag(LevelInfo) \o msg)}

\* What run()'s switch hands to the log.Logger for a message: the set of
\* possible texts (one, except for Print on a text whose result depends on
\* the iteration order of highlights).
Format(level, msg) ==
  IF level \in {LevelInfo, LevelWarn, LevelError, LevelDebug, LevelFatal}
  THEN {PrintfNoArgs(LevelTag(level) \o msg)}
  ELSE IF level = LevelPrint
  THEN {<<Reset>> \o c : c \in colorString(msg)}
  ELSE {<<Reset>> \o msg}

\* Filtered with the comparison off by one: a message at the threshold is
\* skipped too.
FilteredAtThreshold(level, threshold) == level <= threshold

\* The filter of run(): the message is skipped.
Filtered(level, threshold) == level < threshold

(***************************************************************************)
(* State.                                                                  *)
(***************************************************************************)
VARIABLES
  proc,         \* the process: "running", "exit1" (os.Exit(1)) or "panic"
  panicWhy,     \* the runtime error that ended the process, "" if none
  logCh,        \* lg.logCh: the messages buffered in the channel, oldest first
  chClosed,     \* lg.logCh has been closed
  done,         \* lg.done has been closed
  closed,       \* lg.closed
  maxLogLevel,  \* lg.maxLogLevel: the value of the latest write
  levelWrites,  \* every write to lg.maxLogLevel, with the writes ordered before it
  printTime,    \* lg.printTime
  flags,        \* the flags of lg.l: "LstdFlags" or "0"
  pc,           \* where each caller goroutine is
  pend,         \* the message a caller is sending
  hbw,          \* per caller: the writes to maxLogLevel that happen before it
  hClosed,      \* the callers a write closed = true happens before
  wpc,          \* where run() is
  m,            \* run()'s loop variable
  whb,          \* the writes to maxLogLevel that happen before run()'s position
  sent,         \* history: the messages whose send completed, in order
  recvLog,      \* history: the ids run() received, in order
  handled,      \* history: run()'s decision for each message it took up
  sink,         \* what the log.Logger wrote: one line per Printf
  nDone,        \* history: how often done was closed
  nCalls,       \* enqueue calls made
  nSets,        \* SetLevel / SetPrintTime calls made
  nClose,       \* per caller: Close calls made
  workers,      \* the run() goroutines started on the logger
  hlIn,         \* colorString: its argument
  hlS,          \* colorString: s
  hlRest,       \* colorString: the keywords the loop has yet to visit
  global,       \* conf.global: the interface value, its type word and its pointer
  mu,           \* conf.mu: the writer holding it and the readers holding it
  cpc,          \* where each caller is in a conf call
  cloc,         \* the locals of each caller's conf call
  nConf,        \* conf calls made
  getLog        \* history: the Get calls that returned, with what they read

progVars == <<proc, panicWhy, logCh, chClosed, done, closed, maxLogLevel,
              levelWrites, printTime, flags, pc, pend, hbw, hClosed, wpc, m, whb>>
histVars == <<sent, recvLog, handled, sink, nDone, nCalls, nSets, nClose>>
hlVars == <<hlIn, hlS, hlRest>>
confVars == <<global, mu, cpc, cloc, nConf, getLog>>
otherVars == <<hlVars, confVars>>
vars == <<progVars, histVars, workers, otherVars>>

NoMsg == [id |-> 0, level |-> LevelDebug, msg |-> <<>>, hb |-> {}]

\* The operand lists callers pass: Info("O", "K").
ArgLists == { << <<"O">>, <<"K">> >> }

(***************************************************************************)
(* Unsynchronised fields.  maxLogLevel is written by SetLevel and read by  *)
(* run() with no lock or atomic; closed is read and written by Close in    *)
(* the same way.  A racy read of a word returns the value of some write    *)
(* that is not ordered before another write that happens before the read:  *)
(* the latest write a goroutine knows of, or any write concurrent with it. *)
(***************************************************************************)
\* The writes to maxLogLevel a read may return, for a reader that the
\* writes of h happen before.
Visible(h) ==
  {w \in 1..Len(levelWrites) : ~ \E w2 \in h : w \in levelWrites[w2].pred}

\* The values of closed a read by caller t may return.
ClosedReads(t) ==
  IF t \in hClosed THEN {TRUE}
  ELSE IF closed THEN {TRUE, FALSE}
  ELSE {FALSE}

(***************************************************************************)
(* The channel.                                                            *)
(***************************************************************************)
\* ChanPut as a stack: the element joins the head.
ChanPutFront(q, x) == <<x>> \o q

\* A buffered send that finds room: the element joins the tail.
ChanPut(q, x) == Append(q, x)

\* ChanFull one too late: a send still finds room in a full buffer.
ChanFullLate(q) == Len(q) > QueueCap

\* A send blocks while the buffer is full.
ChanFull(q) == Len(q) >= QueueCap

(***************************************************************************)
(* New (lines 74-95): the logger after construction, run() started.        *)
(***************************************************************************)
New ==
  /\ proc = "running"
  /\ panicWhy = ""
  /\ logCh = <<>>
  /\ chClosed = FALSE
  /\ done = FALSE
  /\ closed = FALSE
  /\ maxLogLevel = LevelInfo
  /\ levelWrites = << [val |-> LevelInfo, pred |-> {}] >>
  /\ printTime = TRUE
  /\ flags = "LstdFlags"
  /\ pc = [t \in Callers |-> "idle"]
  /\ pend = [t \in Callers |-> NoMsg]
  /\ hbw = [t \in Callers |-> {1}]
  /\ hClosed = {}
  /\ wpc = "recv"
  /\ m = NoMsg
  /\ whb = {1}
  /\ sent = <<>>
  /\ recvLog = <<>>
  /\ handled = <<>>
  /\ sink = <<>>
  /\ nDone = 0
  /\ nCalls = 0
  /\ nSets = 0
  /\ nClose = [t \in Callers |-> 0]
  /\ workers = 1

\* No colorString call is under way.
HLIdle ==
  /\ hlIn = <<>>
  /\ hlS = <<>>
  /\ hlRest = {}

\* The nil pointer, and the nil interface value (no type, no pointer).
NilPtr == [typ |-> "nil", val |-> 0]
NilAny == [typ |-> "nil", ptr |-> NilPtr]

\* A conf call's locals: the type parameter T, the decoded conf, the error
\* of decodeBytes and the words of global the call has written.
NoCall == [T |-> "", conf |-> NilPtr, err |-> FALSE, wrote |-> {}]

\* Package conf at start (lines 14-18): global is nil, mu is free.
ConfInit ==
  /\ global = NilAny
  /\ mu = [writer |-> 0, readers |-> {}]
  /\ cpc = [t \in Callers |-> "idle"]
  /\ cloc = [t \in Callers |-> NoCall]
  /\ nConf = 0
  /\ getLog = <<>>

Init == New /\ HLIdle /\ ConfInit

(***************************************************************************)
(* Configuration.                                                          *)
(***************************************************************************)
\* SetLevel (lines 97-99): a plain write.
SetLevel(t, level) ==
  /\ proc = "running"
  /\ pc[t] = "idle"
  /\ nSets < MaxSets
  /\ maxLogLevel' = level
  /\ levelWrites' = Append(levelWrites, [val |-> level, pred |-> hbw[t]])
  /\ hbw' = [hbw EXCEPT ![t] = hbw[t] \cup {Len(levelWrites) + 1}]
  /\ nSets' = nSets + 1
  /\ UNCHANGED <<proc, panicWhy, logCh, chClosed, done, closed, printTime,
                 flags, pc, pend, hClosed, wpc, m, whb>>
  /\ UNCHANGED <<sent, recvLog, handled, sink, nDone, nCalls, nClose>>
  /\ UNCHANGED <<workers, otherVars>>

\* SetPrintTime that starts run() again.
SetPrintTimeRespawn(t, print) ==
  /\ proc = "running"
  /\ pc[t] = "idle"
  /\ nSets < MaxSets
  /\ printTime' = print
  /\ flags' = IF print THEN "LstdFlags" ELSE "0"
  /\ nSets' = nSets + 1
  /\ workers' = workers + 1
  /\ UNCHANGED <<proc, panicWhy, logCh, chClosed, done, closed, maxLogLevel,
                 levelWrites, pc, pend, hbw, hClosed, wpc, m, whb>>
  /\ UNCHANGED <<sent, recvLog, handled, sink, nDone, nCalls, nClose>>
  /\ UNCHANGED otherVars

\* SetPrintTime (lines 101-110).  The prefix it sets again is the one New set.
SetPrintTime(t, print) ==
  /\ proc = "running"
  /\ pc[t] = "idle"
  /\ nSets < MaxSets
  /\ printTime' = print
  /\ flags' = IF print THEN "LstdFlags" ELSE "0"
  /\ nSets' = nSets + 1
  /\ UNCHANGED <<proc, panicWhy, logCh, chClosed, done, closed, maxLogLevel,
                 levelWrites, pc, pend, hbw, hClosed, wpc, m, whb>>
  /\ UNCHANGED <<sent, recvLog, handled, sink, nDone, nCalls, nClose>>
  /\ UNCHANGED <<workers, otherVars>>

(***************************************************************************)
(* Enqueue: the body shared by Log, Debug, Info, Warn, Error, Print and    *)
(* Fatal (lines 140-171): build the message, then send it on logCh.        *)
(***************************************************************************)
Enqueue(t, level, v) ==
  /\ proc = "running"
  /\ pc[t] = "idle"
  /\ pend' = [pend EXCEPT ![t] =
                [id |-> 0, level |-> level, msg |-> Sprint(v), hb |-> hbw[t]]]
  /\ pc' = [pc EXCEPT ![t] = "send"]
  /\ nCalls' = nCalls + 1
  /\ UNCHANGED <<proc, panicWhy, logCh, chClosed, done, closed, maxLogLevel,
                 levelWrites, printTime, flags, hbw, hClosed, wpc, m, whb>>
  /\ UNCHANGED <<sent, recvLog, handled, sink, nDone, nSets, nClose>>
  /\ UNCHANGED <<workers, otherVars>>

\* The send itself: a panic on a closed channel, a wait while the buffer is
\* full, else the message is buffered and the call returns.
ChanSend(t) ==
  /\ proc = "running"
  /\ pc[t] = "send"
  /\ IF chClosed
     THEN /\ proc' = "panic"
          /\ panicWhy' = "send on closed channel"
          /\ UNCHANGED <<logCh, pc, pend, sent>>
     ELSE /\ ~ ChanFull(logCh)
          /\ logCh' = ChanPut(logCh, [pend[t] EXCEPT !.id = Len(sent) + 1])
          /\ sent' = Append(sent, [pend[t] EXCEPT !.id = Len(sent) + 1])
          /\ pc' = [pc EXCEPT ![t] = "idle"]
          /\ pend' = [pend EXCEPT ![t] = NoMsg]
          /\ UNCHANGED <<proc, panicWhy>>
  /\ UNCHANGED <<chClosed, done, closed, maxLogLevel, levelWrites, printTime,
                 flags, hbw, hClosed, wpc, m, whb>>
  /\ UNCHANGED <<recvLog, handled, sink, nDone, nCalls, nSets, nClose>>
  /\ UNCHANGED <<workers, otherVars>>

Log(t) ==
  /\ nCalls < MaxMsgs
  /\ \E level \in {LevelDebug - 1, LevelWarn, LevelPrint + 1} :
       \E v \in ArgLists : Enqueue(t, level, v)

Info(t) == nCalls < MaxMsgs /\ \E v \in ArgLists : Enqueue(t, LevelInfo, v)

Warn(t) == nCalls < MaxMsgs /\ \E v \in ArgLists : Enqueue(t, LevelWarn, v)

Error(t) == nCalls < MaxMsgs /\ \E v \in ArgLists : Enqueue(t, LevelError, v)

Debug(t) == nCalls < MaxMsgs /\ \E v \in ArgLists : Enqueue(t, LevelDebug, v)

LgPrint(t) == nCalls < MaxMsgs /\ \E v \in ArgLists : Enqueue(t, LevelPrint, v)

Fatal(t) == nCalls < MaxMsgs /\ \E v \in ArgLists : Enqueue(t, LevelFatal, v)

(***************************************************************************)
(* Close (lines 178-184).                                                  *)
(***************************************************************************)
RECURSIVE SumOver(_, _)
SumOver(f, S) ==
  IF S = {} THEN 0
  ELSE LET x == CHOOSE y \in S : TRUE IN f[x] + SumOver(f, S \ {x})

ClosesMade == SumOver(nClose, Callers)

\* Close without the test of lg.closed: every call closes logCh.
CloseUnguarded(t) ==
  /\ proc = "running"
  /\ pc[t] = "idle"
  /\ ClosesMade < MaxCloses
  /\ nClose' = [nClose EXCEPT ![t] = nClose[t] + 1]
  /\ IF chClosed
     THEN /\ proc' = "panic"
          /\ panicWhy' = "close of closed channel"
          /\ UNCHANGED <<chClosed, pc>>
     ELSE /\ chClosed' = TRUE
          /\ pc' = [pc EXCEPT ![t] = "wait"]
          /\ UNCHANGED <<proc, panicWhy>>
  /\ UNCHANGED <<logCh, done, closed, maxLogLevel, levelWrites, printTime,
                 flags, pend, hbw, hClosed, wpc, m, whb>>
  /\ UNCHANGED <<sent, recvLog, handled, sink, nDone, nCalls, nSets>>
  /\ UNCHANGED <<workers, otherVars>>

\* The call up to the wait: the test of lg.closed and close(lg.logCh).
\* A closed flag read as true makes the call return at once; closing a closed
\* channel panics.
Close(t) ==
  /\ proc = "running"
  /\ pc[t] = "idle"
  /\ ClosesMade < MaxCloses
  /\ nClose' = [nClose EXCEPT ![t] = nClose[t] + 1]
  /\ \E isClosed \in ClosedReads(t) :
       IF isClosed
       THEN UNCHANGED <<proc, panicWhy, chClosed, pc>>
       ELSE IF chClosed
       THEN /\ proc' = "panic"
            /\ panicWhy' = "close of closed channel"
            /\ UNCHANGED <<chClosed, pc>>
       ELSE /\ chClosed' = TRUE
            /\ pc' = [pc EXCEPT ![t] = "wait"]
            /\ UNCHANGED <<proc, panicWhy>>
  /\ UNCHANGED <<logCh, done, closed, maxLogLevel, levelWrites, printTime,
                 flags, pend, hbw, hClosed, wpc, m, whb>>
  /\ UNCHANGED <<sent, recvLog, handled, sink, nDone, nCalls, nSets>>
  /\ UNCHANGED <<workers, otherVars>>

\* CloseReturn without the wait on done: closed is set right after
\* close(lg.logCh).
CloseReturnNoWait(t) ==
  /\ proc = "running"
  /\ pc[t] = "wait"
  /\ closed' = TRUE
  /\ hClosed' = hClosed \cup {t}
  /\ pc' = [pc EXCEPT ![t] = "idle"]
  /\ UNCHANGED <<proc, panicWhy, logCh, chClosed, done, maxLogLevel,
                 levelWrites, printTime, flags, pend, hbw, wpc, m, whb>>
  /\ UNCHANGED histVars
  /\ UNCHANGED <<workers, otherVars>>

\* <-lg.done returns once done is closed; then lg.closed = true and the call
\* returns.
CloseReturn(t) ==
  /\ proc = "running"
  /\ pc[t] = "wait"
  /\ done
  /\ closed' = TRUE
  /\ hClosed' = hClosed \cup {t}
  /\ pc' = [pc EXCEPT ![t] = "idle"]
  /\ UNCHANGED <<proc, panicWhy, logCh, chClosed, done, maxLogLevel,
                 levelWrites, printTime, flags, pend, hbw, wpc, m, whb>>
  /\ UNCHANGED histVars
  /\ UNCHANGED <<workers, otherVars>>

(***************************************************************************)
(* run (lines 113-137).                                                    *)
(***************************************************************************)
\* Recv that reads the oldest message and leaves it in the channel.
RecvPeek ==
  /\ proc = "running"
  /\ wpc = "recv"
  /\ IF logCh # <<>>
     THEN /\ m' = Head(logCh)
          /\ whb' = whb \cup Head(logCh).hb
          /\ recvLog' = Append(recvLog, Head(logCh).id)
          /\ wpc' = "handle"
          /\ UNCHANGED logCh
     ELSE /\ chClosed
          /\ wpc' = "closedone"
          /\ UNCHANGED <<m, logCh, whb, recvLog>>
  /\ UNCHANGED <<proc, panicWhy, chClosed, done, closed, maxLogLevel,
                 levelWrites, printTime, flags, pc, pend, hbw, hClosed>>
  /\ UNCHANGED <<sent, handled, sink, nDone, nCalls, nSets, nClose>>
  /\ UNCHANGED <<workers, otherVars>>

\* Recv that leaves the loop as soon as logCh is closed, whatever it holds.
RecvQuitOnClose ==
  /\ proc = "running"
  /\ wpc = "recv"
  /\ IF chClosed
     THEN /\ wpc' = "closedone"
          /\ UNCHANGED <<m, logCh, whb, recvLog>>
     ELSE /\ logCh # <<>>
          /\ m' = Head(logCh)
          /\ logCh' = Tail(logCh)
          /\ whb' = whb \cup Head(logCh).hb
          /\ recvLog' = Append(recvLog, Head(logCh).id)
          /\ wpc' = "handle"
  /\ UNCHANGED <<proc, panicWhy, chClosed, done, closed, maxLogLevel,
                 levelWrites, printTime, flags, pc, pend, hbw, hClosed>>
  /\ UNCHANGED <<sent, handled, sink, nDone, nCalls, nSets, nClose>>
  /\ UNCHANGED <<workers, otherVars>>

\* for m := range lg.logCh: take the oldest message; leave the loop when the
\* channel is closed and empty; wait otherwise.  The send of a message
\* happens before its receive.
Recv ==
  /\ proc = "running"
  /\ wpc = "recv"
  /\ IF logCh # <<>>
     THEN /\ m' = Head(logCh)
          /\ logCh' = Tail(logCh)
          /\ whb' = whb \cup Head(logCh).hb
          /\ recvLog' = Append(recvLog, Head(logCh).id)
          /\ wpc' = "handle"
     ELSE /\ chClosed
          /\ wpc' = "closedone"
          /\ UNCHANGED <<m, logCh, whb, recvLog>>
  /\ UNCHANGED <<proc, panicWhy, chClosed, done, closed, maxLogLevel,
                 levelWrites, printTime, flags, pc, pend, hbw, hClosed>>
  /\ UNCHANGED <<sent, handled, sink, nDone, nCalls, nSets, nClose>>
  /\ UNCHANGED <<workers, otherVars>>

\* The line the log.Logger writes for a Printf: its prefix, the time when
\* the flags ask for it, and the text.
Line(id, body) == [id |-> id, time |-> (flags = "LstdFlags"), body |-> body]

\* The loop body: the filter on a read of lg.maxLogLevel, then the switch.
Handle ==
  /\ proc = "running"
  /\ wpc = "handle"
  /\ \E w \in Visible(whb) :
       LET threshold == levelWrites[w].val
           seen == {levelWrites[x].val : x \in Visible(whb)}
       IN  IF Filtered(m.level, threshold)
           THEN /\ handled' = Append(handled,
                    [id |-> m.id, level |-> m.level, threshold |-> threshold,
                     seen |-> seen, latest |-> maxLogLevel,
                     written |-> FALSE])
                /\ wpc' = "recv"
                /\ UNCHANGED sink
           ELSE /\ handled' = Append(handled,
                    [id |-> m.id, level |-> m.level, threshold |-> threshold,
                     seen |-> seen, latest |-> maxLogLevel,
                     written |-> TRUE])
                /\ \E body \in Format(m.level, m.msg) :
                     sink' = Append(sink, Line(m.id, body))
                /\ wpc' = IF m.level = LevelFatal THEN "exit" ELSE "recv"
  /\ m' = NoMsg
  /\ UNCHANGED <<proc, panicWhy, logCh, chClosed, done, closed, maxLogLevel,
                 levelWrites, printTime, flags, pc, pend, hbw, hClosed, whb>>
  /\ UNCHANGED <<sent, recvLog, nDone, nCalls, nSets, nClose>>
  /\ UNCHANGED <<workers, otherVars>>

\* Exit that returns: run() goes on with its loop.
ExitReturns ==
  /\ proc = "running"
  /\ wpc = "exit"
  /\ wpc' = "recv"
  /\ UNCHANGED <<proc, panicWhy, logCh, chClosed, done, closed, maxLogLevel,
                 levelWrites, printTime, flags, pc, pend, hbw, hClosed,
                 m, whb>>
  /\ UNCHANGED histVars
  /\ UNCHANGED <<workers, otherVars>>

\* os.Exit(1) after the Fatal line.
Exit ==
  /\ proc = "running"
  /\ wpc = "exit"
  /\ proc' = "exit1"
  /\ UNCHANGED <<panicWhy, logCh, chClosed, done, closed, maxLogLevel,
                 levelWrites, printTime, flags, pc, pend, hbw, hClosed, wpc,
                 m, whb>>
  /\ UNCHANGED histVars
  /\ UNCHANGED <<workers, otherVars>>

\* close(lg.done) after the loop.
CloseDone ==
  /\ proc = "running"
  /\ wpc = "closedone"
  /\ done' = TRUE
  /\ nDone' = nDone + 1
  /\ wpc' = "terminated"
  /\ UNCHANGED <<proc, panicWhy, logCh, chClosed, closed, maxLogLevel,
                 levelWrites, printTime, flags, pc, pend, hbw, hClosed, m, whb>>
  /\ UNCHANGED <<sent, recvLog, handled, sink, nCalls, nSets, nClose>>
  /\ UNCHANGED <<workers, otherVars>>

(***************************************************************************)
(* The logger with its callers.                                            *)
(***************************************************************************)
Next ==
  \/ \E t \in Callers : \E level \in LogLevel : SetLevel(t, level)
  \/ \E t \in Callers : \E print \in BOOLEAN : SetPrintTime(t, print)
  \/ \E t \in Callers : Log(t)
  \/ \E t \in Callers : Info(t)
  \/ \E t \in Callers : Warn(t)
  \/ \E t \in Callers : Error(t)
  \/ \E t \in Callers : Debug(t)
  \/ \E t \in Callers : LgPrint(t)
  \/ \E t \in Callers : Fatal(t)
  \/ \E t \in Callers : ChanSend(t)
  \/ \E t \in Callers : Close(t)
  \/ \E t \in Callers : CloseReturn(t)
  \/ Recv
  \/ Handle
  \/ Exit
  \/ CloseDone

Spec == Init /\ [][Next]_vars

(***************************************************************************)
(* colorString (lines 187-192) on its own, one loop iteration at a time:   *)
(* range highlights visits the keywords in any order.                      *)
(***************************************************************************)
\* The fragments the texts are made of: keywords, the tail that makes
\* "HEADELETE" (HEAD and DELETE sharing the D), and plain characters.
Pieces ==
  { <<"O", "K">>, <<"G", "E", "T">>, <<"H", "E", "A", "D">>,
    <<"D", "E", "L", "E", "T", "E">>, <<"E", "L", "E", "T", "E">>,
    <<" ">>, <<"s">> }

RECURSIVE Concats(_)
Concats(n) ==
  IF n = 0 THEN {<<>>}
  ELSE Concats(n - 1) \cup {a \o b : a \in Concats(n - 1), b \in Pieces}

ExampleText ==
  <<"s", "t", "a", "t", "u", "s", " ", "O", "K", ",", " ",
    "m", "e", "t", "h", "o", "d", " ", "G", "E", "T">>

Texts == Concats(MaxPieces) \cup {ExampleText}

\* A call colorString(s) starts.
InitHL ==
  /\ New
  /\ ConfInit
  /\ hlIn \in Texts
  /\ hlS = hlIn
  /\ hlRest = highlights

\* One iteration: s = strings.ReplaceAll(s, word, color + word + Reset).
ColorStep ==
  /\ hlRest # {}
  /\ \E h \in hlRest :
       /\ hlS' = Colorize(hlS, h)
       /\ hlRest' = hlRest \ {h}
  /\ UNCHANGED <<hlIn, progVars, histVars, workers, confVars>>

NextHL == ColorStep

SpecHL == InitHL /\ [][NextHL]_vars

(***************************************************************************)
(* Package conf (src/conf/conf.go) over its logger log = New("CONF", ...). *)
(* global is an interface value: a type word and a pointer word.           *)
(***************************************************************************)
\* The config struct types callers instantiate T with.
ConfTypes == {"A", "B"}

\* File contents: the decoders that accept the text, the struct type whose
\* fields it has, and what it says.
Datas ==
  { [parses |-> {"json", "yaml"}, fields |-> "A", val |-> 1],
    [parses |-> {"yaml"},         fields |-> "B", val |-> 2],
    [parses |-> {},               fields |-> "A", val |-> 3] }

FTypes == {"json", "yaml", "toml"}

\* decodeBytes[T] (lines 49-69) succeeds: a known file type, a text its
\* decoder accepts, and no field T does not know.
DecodeOk(T, data, ftype) ==
  /\ ftype \in {"json", "yaml"}
  /\ ftype \in data.parses
  /\ data.fields = T

\* What decodeBytes[T] returns as *T: &conf, or nil with an error.
decodeBytes(T, data, ftype) ==
  IF DecodeOk(T, data, ftype) THEN [typ |-> T, val |-> data.val] ELSE NilPtr

LoadRec(t, err, wrote) ==
  [op |-> "load", t |-> t, T |-> "", err |-> err, wrote |-> wrote,
   typ |-> "nil", res |-> NilPtr]

GetRec(t, T, typ, res) ==
  [op |-> "get", t |-> t, T |-> T, err |-> FALSE, wrote |-> {},
   typ |-> typ, res |-> res]

\* Caller t can start a call of package conf.
CanCall(t) ==
  /\ proc = "running"
  /\ pc[t] = "idle"
  /\ cpc[t] = "idle"
  /\ nConf < MaxConfCalls

\* A load returns an error without having reached mu.Lock().
LoadFail(t) ==
  /\ CanCall(t)
  /\ nConf' = nConf + 1
  /\ getLog' = Append(getLog, LoadRec(t, TRUE, {}))
  /\ UNCHANGED <<global, mu, cpc, cloc>>
  /\ UNCHANGED <<progVars, histVars, workers, hlVars>>

\* A load has its conf and goes on to mu.Lock().
LoadGo(t, T, conf, err) ==
  /\ CanCall(t)
  /\ nConf' = nConf + 1
  /\ cloc' = [cloc EXCEPT ![t] = [T |-> T, conf |-> conf, err |-> err,
                                  wrote |-> {}]]
  /\ cpc' = [cpc EXCEPT ![t] = "lock"]
  /\ UNCHANGED <<global, mu, getLog>>
  /\ UNCHANGED <<progVars, histVars, workers, hlVars>>

\* LoadFromBytes that stores conf before it looks at err.
LoadFromBytesStoreFirst(t, T, data, ftype) ==
  LoadGo(t, T, IF DecodeOk(T, data, ftype)
                 THEN decodeBytes(T, data, ftype)
                 ELSE [typ |-> T, val |-> 0],
         ~ DecodeOk(T, data, ftype))

\* LoadFromBytes (lines 71-76): decode; an error is returned at once.
LoadFromBytes(t, T, data, ftype) ==
  IF DecodeOk(T, data, ftype)
  THEN LoadGo(t, T, decodeBytes(T, data, ftype), FALSE)
  ELSE LoadFail(t)

\* mu.Lock() (line 77): no writer and no reader holds mu.
Lock(t) ==
  /\ proc = "running"
  /\ cpc[t] = "lock"
  /\ mu.writer = 0
  /\ mu.readers = {}
  /\ mu' = [mu EXCEPT !.writer = t]
  /\ cpc' = [cpc EXCEPT ![t] = "store"]
  /\ UNCHANGED <<global, cloc, nConf, getLog>>
  /\ UNCHANGED <<progVars, histVars, workers, hlVars>>

\* global = conf (line 78): the two words of the interface are stored one
\* after the other, in either order.
Store(t) ==
  /\ proc = "running"
  /\ cpc[t] = "store"
  /\ \E w \in {"typ", "ptr"} \ cloc[t].wrote :
       /\ global' = IF w = "typ"
                      THEN [global EXCEPT !.typ = cloc[t].conf.typ]
                      ELSE [global EXCEPT !.ptr = cloc[t].conf]
       /\ cloc' = [cloc EXCEPT ![t].wrote = @ \cup {w}]
       /\ cpc' = [cpc EXCEPT ![t] =
                    IF cloc[t].wrote \cup {w} = {"typ", "ptr"}
                    THEN "unlock" ELSE "store"]
  /\ UNCHANGED <<mu, nConf, getLog>>
  /\ UNCHANGED <<progVars, histVars, workers, hlVars>>

\* mu.Unlock() and the return (lines 79-81).
Unlock(t) ==
  /\ proc = "running"
  /\ cpc[t] = "unlock"
  /\ mu' = [mu EXCEPT !.writer = 0]
  /\ cpc' = [cpc EXCEPT ![t] = "idle"]
  /\ getLog' = Append(getLog, LoadRec(t, cloc[t].err, cloc[t].wrote))
  /\ cloc' = [cloc EXCEPT ![t] = NoCall]
  /\ UNCHANGED <<global, nConf>>
  /\ UNCHANGED <<progVars, histVars, workers, hlVars>>

\* The file system: directory, name split at its dots, whether os.ReadFile
\* can read it, and its text.
NoPath == [dir |-> "", name |-> <<>>]

Fs ==
  { [dir |-> "/etc/vizn3r-cloud/", name |-> <<"c", "JSON">>, readable |-> TRUE,
     data |-> [parses |-> {"json", "yaml"}, fields |-> "A", val |-> 1]],
    [dir |-> "", name |-> <<"c", "yaml">>, readable |-> TRUE,
     data |-> [parses |-> {"yaml"}, fields |-> "B", val |-> 2]],
    [dir |-> "", name |-> <<"c", "txt">>, readable |-> TRUE,
     data |-> [parses |-> {"json", "yaml"}, fields |-> "A", val |-> 1]],
    [dir |-> "", name |-> <<"locked", "json">>, readable |-> FALSE,
     data |-> [parses |-> {"json", "yaml"}, fields |-> "A", val |-> 1]] }

\* "./c.yaml" and "c.yaml" are the same file.
Norm(path) == IF path.dir = "./" THEN [path EXCEPT !.dir = ""] ELSE path

FilesAt(path) ==
  {f \in Fs : f.dir = Norm(path).dir /\ f.name = Norm(path).name}

\* os.Stat(path) returns no error.
StatOk(path) == FilesAt(path) # {}

\* strings.ToLower on the file name extensions in use.
ToLower(ext) == IF ext = "JSON" THEN "json" ELSE ext

\* LoadConfig's ftype (lines 94-95): the lower-cased last part of the path
\* split at its dots; a name with no dot gives no known type.
FType(path) ==
  IF Len(path.name) >= 2 THEN ToLower(path.name[Len(path.name)]) ELSE "none"

\* LoadConfig (lines 84-102): an unreadable or missing file is an error,
\* else LoadFromBytes on its text (ReadFile gives non-nil data on success).
LoadConfig(t, T, path) ==
  /\ CanCall(t)
  /\ IF \E f \in FilesAt(path) : f.readable
     THEN LET f == CHOOSE x \in FilesAt(path) : x.readable
          IN  LoadFromBytes(t, T, f.data, FType(path))
     ELSE LoadFail(t)

\* FindAndLoadConfig's possiblePaths (lines 25-33); $HOME is not expanded.
possiblePaths(env, conf) ==
  << env,
     [dir |-> "", name |-> conf],
     [dir |-> "./", name |-> conf],
     [dir |-> "/etc/vizn3r-cloud/", name |-> conf],
     [dir |-> "/usr/local/etc/vizn3r-cloud/", name |-> conf],
     [dir |-> "$HOME/.config/vizn3r-cloud/", name |-> conf],
     [dir |-> "$HOME/.config/cloud/", name |-> conf] >>

\* FindAndLoadConfig (lines 20-47): the first path that exists, if conf is
\* not the empty string.
FindAndLoadConfig(t, T, conf, env) ==
  /\ CanCall(t)
  /\ LET paths == possiblePaths(env, conf)
         found == {i \in 1..Len(paths) : StatOk(paths[i]) /\ conf # <<>>}
     IN  IF found = {}
         THEN LoadFail(t)
         ELSE LoadConfig(t, T, paths[CHOOSE i \in found :
                                       \A j \in found : i <= j])

\* The names and CONFIG_PATH values callers use.
ConfNames == {<<>>, <<"c", "JSON">>, <<"c", "yaml">>, <<"nofile", "json">>}
EnvPaths == {NoPath, [dir |-> "", name |-> <<"c", "txt">>]}
LoadPaths ==
  { [dir |-> "./", name |-> <<"c", "yaml">>],
    [dir |-> "", name |-> <<"locked", "json">>],
    [dir |-> "/etc/vizn3r-cloud/", name |-> <<"c", "JSON">>] }

\* mu.RLock() that does not wait for the writer.
RLockNoWait(t, T) ==
  /\ CanCall(t)
  /\ nConf' = nConf + 1
  /\ mu' = [mu EXCEPT !.readers = @ \cup {t}]
  /\ cloc' = [cloc EXCEPT ![t] = [NoCall EXCEPT !.T = T]]
  /\ cpc' = [cpc EXCEPT ![t] = "check"]
  /\ UNCHANGED <<global, getLog>>
  /\ UNCHANGED <<progVars, histVars, workers, hlVars>>

\* Get[T] starts (line 105): mu.RLock() waits while a writer holds mu.
RLock(t, T) ==
  /\ CanCall(t)
  /\ mu.writer = 0
  /\ nConf' = nConf + 1
  /\ mu' = [mu EXCEPT !.readers = @ \cup {t}]
  /\ cloc' = [cloc EXCEPT ![t] = [NoCall EXCEPT !.T = T]]
  /\ cpc' = [cpc EXCEPT ![t] = "check"]
  /\ UNCHANGED <<global, getLog>>
  /\ UNCHANGED <<progVars, histVars, workers, hlVars>>

NotInitialized == <<"Global config is not initialized">>
AssertionFailed == <<"Global config type assertion failed">>

\* Lines 108-119: global == nil or a failed type assertion calls log.Fatal,
\* which puts the message together and goes on to the send on logCh (lines
\* 169-171); else conf is what Get will return.
GetCheck(t) ==
  /\ proc = "running"
  /\ cpc[t] = "check"
  /\ IF global.typ = cloc[t].T
     THEN /\ cloc' = [cloc EXCEPT ![t].conf = global.ptr]
          /\ cpc' = [cpc EXCEPT ![t] = "return"]
          /\ UNCHANGED <<pend, pc, nCalls>>
     ELSE /\ pend' = [pend EXCEPT ![t] =
                        [id |-> 0, level |-> LevelFatal,
                         msg |-> Sprint(<< IF global.typ = "nil"
                                           THEN NotInitialized
                                           ELSE AssertionFailed >>),
                         hb |-> hbw[t]]]
          /\ pc' = [pc EXCEPT ![t] = "send"]
          /\ nCalls' = nCalls + 1
          /\ cpc' = [cpc EXCEPT ![t] = "return"]
          /\ UNCHANGED cloc
  /\ UNCHANGED <<global, mu, nConf, getLog>>
  /\ UNCHANGED <<proc, panicWhy, logCh, chClosed, done, closed, maxLogLevel,
                 levelWrites, printTime, flags, hbw, hClosed, wpc, m, whb>>
  /\ UNCHANGED <<sent, recvLog, handled, sink, nDone, nSets, nClose>>
  /\ UNCHANGED <<workers, hlVars>>

\* Get returns (return nil after log.Fatal has returned, or return conf):
\* the deferred mu.RUnlock() runs.
GetReturn(t) ==
  /\ proc = "running"
  /\ cpc[t] = "return"
  /\ pc[t] = "idle"
  /\ mu' = [mu EXCEPT !.readers = @ \ {t}]
  /\ getLog' = Append(getLog, GetRec(t, cloc[t].T, cloc[t].conf.typ,
                                     cloc[t].conf))
  /\ cpc' = [cpc EXCEPT ![t] = "idle"]
  /\ cloc' = [cloc EXCEPT ![t] = NoCall]
  /\ UNCHANGED <<global, nConf>>
  /\ UNCHANGED <<progVars, histVars, workers, hlVars>>

NextConf ==
  \/ \E t \in Callers : \E T \in ConfTypes : \E data \in Datas :
       \E ftype \in FTypes : LoadFromBytes(t, T, data, ftype)
  \/ \E t \in Callers : \E T \in ConfTypes : \E path \in LoadPaths :
       LoadConfig(t, T, path)
  \/ \E t \in Callers : \E T \in ConfTypes : \E conf \in ConfNames :
       \E env \in EnvPaths : FindAndLoadConfig(t, T, conf, env)
  \/ \E t \in Callers : Lock(t)
  \/ \E t \in Callers : Store(t)
  \/ \E t \in Callers : Unlock(t)
  \/ \E t \in Callers : \E T \in ConfTypes : RLock(t, T)
  \/ \E t \in Callers : GetCheck(t)
  \/ \E t \in Callers : GetReturn(t)
  \/ \E t \in Callers : ChanSend(t)
  \/ Recv
  \/ Handle
  \/ Exit

SpecConf == Init /\ [][NextConf]_vars

\* Goroutines are scheduled fairly: a step a goroutine can take is taken.
\* Which calls the callers make, and when, is up to them.
Fairness ==
  /\ WF_vars(Recv)
  /\ WF_vars(Handle)
  /\ WF_vars(Exit)
  /\ WF_vars(CloseDone)
  /\ \A t \in Callers : WF_vars(ChanSend(t))
  /\ \A t \in Callers : WF_vars(CloseReturn(t))

FairSpec == Spec /\ Fairness

(***************************************************************************)
(* A burst of Info calls on an open logger: enough of them to fill logCh.  *)
(***************************************************************************)
InfoBurst(t) == nCalls < BurstMsgs /\ \E v \in ArgLists : Enqueue(t, LevelInfo, v)

NextBP ==
  \/ \E t \in Callers : InfoBurst(t)
  \/ \E t \in Callers : ChanSend(t)
  \/ Recv
  \/ Handle

SpecBP == Init /\ [][NextBP]_vars

(***************************************************************************)
(* Properties.                                                             *)
(***************************************************************************)
\* The history entry of message id, if run() has decided on it.
HandledIds == {handled[k].id : k \in 1..Len(handled)}
SinkIds == {sink[k].id : k \in 1..Len(sink)}
Written == {k \in 1..Len(handled) : handled[k].written}
Skipped == {k \in 1..Len(handled) : ~ handled[k].written}
EverSet == {levelWrites[w].val : w \in 1..Len(levelWrites)}
FatalProcessed ==
  \E k \in 1..Len(handled) : handled[k].level = LevelFatal /\ handled[k].written

\* C1: the lines of the Sink are messages whose send completed, in the order
\* in which their sends completed (ids count the completed sends), each line
\* the formatted text of its message: the Sink is an order-preserving
\* subsequence of the enqueue sequence, whatever the levels.
FifoOrder ==
  /\ \A i \in 1..Len(sink) :
       /\ sink[i].id \in 1..Len(sent)
       /\ sink[i].body \in Format(sent[sink[i].id].level, sent[sink[i].id].msg)
  /\ \A i, j \in 1..Len(sink) : i < j => sink[i].id < sink[j].id

\* Two messages of different levels have both been written.
FifoWitness ==
  /\ Len(sink) = 2
  /\ sent[sink[1].id].level # sent[sink[2].id].level

\* C2: for a message of a named level that run() filters against a named
\* threshold which every write to maxLogLevel still in play agrees on (the
\* threshold was set before the message was sent and not changed since),
\* the message is written to the Sink iff its level >= the threshold.
ThresholdFilter ==
  \A k \in 1..Len(handled) :
    ( /\ handled[k].level \in NamedLevels
      /\ handled[k].seen = {handled[k].threshold}
      /\ handled[k].threshold \in NamedLevels )
    => /\ handled[k].written <=> handled[k].level >= handled[k].threshold
       /\ handled[k].written <=> handled[k].id \in SinkIds

\* After SetLevel(Warn): an Info was skipped and an Error was written.
ThresholdWitness ==
  /\ Len(handled) = 2
  /\ Len(levelWrites) = 2
  /\ handled[1].seen = {LevelWarn} /\ handled[2].seen = {LevelWarn}
  /\ handled[1].level = LevelInfo /\ ~ handled[1].written
  /\ handled[2].level = LevelError /\ handled[2].written
  /\ Len(sink) = 1

\* C3: once a Close call has returned (closed is set), logCh is empty, run()
\* has left its loop and closed done, and every message whose send completed
\* has been decided: it is in the Sink, or it was skipped because its level
\* was below the threshold read for it; a message at or above every value
\* the threshold ever had is in the Sink.
DrainOnClose ==
  closed =>
    /\ logCh = <<>>
    /\ m = NoMsg
    /\ done
    /\ wpc = "terminated"
    /\ \A i \in 1..Len(sent) :
         /\ i \in HandledIds
         /\ \A k \in 1..Len(handled) :
              handled[k].id = i =>
                /\ handled[k].written => i \in SinkIds
                /\ ~ handled[k].written =>
                     handled[k].level < handled[k].threshold
         /\ (\A x \in EverSet : sent[i].level >= x) => i \in SinkIds

\* Close has returned after two messages, neither Fatal, were enqueued and
\* written.
DrainWitness ==
  /\ closed
  /\ Len(sent) = 2
  /\ Len(sink) = 2
  /\ \A i \in 1..Len(sent) : sent[i].level # LevelFatal

\* C4: logCh never holds more than 100 messages; a send completes only from a
\* state with fewer than 100 buffered, and a caller at its send on the open
\* channel can complete it exactly when fewer than 100 are buffered: with 100
\* buffered it waits until run() has taken one.
Backpressure ==
  /\ [](Len(logCh) <= QueueCap)
  /\ [][\A t \in Callers :
          (pc[t] = "send" /\ pc'[t] = "idle") => Len(logCh) < QueueCap]_vars
  /\ [](\A t \in Callers :
          (proc = "running" /\ pc[t] = "send" /\ ~ chClosed)
            => (ENABLED ChanSend(t) <=> Len(logCh) < QueueCap))

\* logCh is full again after run() has taken messages, a caller waits at its
\* send, and more than 100 sends have completed.
BackpressureWitness ==
  /\ Len(logCh) = QueueCap
  /\ \E t \in Callers : pc[t] = "send"
  /\ Len(sent) > QueueCap
  /\ Len(recvLog) >= 1

\* C5: a Close call by a caller for which an earlier Close call has returned
\* changes nothing of the logger (logCh, done, closed, the Sink, every other
\* field), closes no channel, does not panic and leaves the caller free: only
\* the count of calls grows.
CloseAgainNoop ==
  [][\A t \in Callers :
       (t \in hClosed /\ nClose'[t] = nClose[t] + 1)
         => /\ UNCHANGED progVars
            /\ UNCHANGED <<sent, recvLog, handled, sink, nDone, nCalls, nSets>>
            /\ proc' = "running"
            /\ pc'[t] = "idle"]_vars

\* A caller has made a second Close call after its first returned.
CloseAgainWitness ==
  \E t \in Callers : t \in hClosed /\ nClose[t] >= 2 /\ proc = "running"

\* C6 (as claimed): a Fatal message that run() takes up under any named
\* threshold is written to the Sink (and the process then exits with 1).
FatalAlwaysWritten ==
  \A k \in 1..Len(handled) :
    (handled[k].level = LevelFatal /\ handled[k].seen \subseteq NamedLevels)
      => handled[k].written

\* C7 (as claimed): no enqueue sends on a closed logCh, so none panics.
NoSendOnClosed == panicWhy # "send on closed channel"

\* C8: once closed is true it stays true, logCh is and stays closed, no
\* message joins logCh or the enqueue history, and the Sink gets no line.
ClosedIsFinal ==
  [][closed =>
       /\ closed'
       /\ chClosed /\ chClosed'
       /\ logCh' = logCh
       /\ sent' = sent
       /\ sink' = sink]_vars

\* An enqueue was tried after Close returned: it added nothing.
ClosedIsFinalWitness ==
  /\ closed
  /\ panicWhy = "send on closed channel"
  /\ logCh = <<>>

\* C9: run() receives only messages whose send completed and each at most
\* once; each received message is decided once (written or skipped); and
\* once Close has returned every message has been received exactly once, so
\* the lines written plus the messages skipped are the messages enqueued.
ExactlyOnce ==
  /\ \A i \in 1..Len(recvLog) : recvLog[i] \in 1..Len(sent)
  /\ \A i, j \in 1..Len(recvLog) : i # j => recvLog[i] # recvLog[j]
  /\ Len(handled) + (IF wpc = "handle" THEN 1 ELSE 0) = Len(recvLog)
  /\ \A k \in 1..Len(handled) : handled[k].id = recvLog[k]
  /\ Len(sink) = Cardinality(Written)
  /\ Len(recvLog) + Len(logCh) = Len(sent)
  /\ closed =>
       /\ Len(recvLog) = Len(sent)
       /\ Len(sink) + Cardinality(Skipped) = Len(sent)

\* Close has returned with one message written and one skipped, sent by
\* callers that raced.
ExactlyOnceWitness ==
  /\ closed
  /\ Len(sent) = 2
  /\ Len(sink) = 1
  /\ Cardinality(Skipped) = 1
  /\ ~ FatalProcessed

\* C10 (as claimed): once logCh is closed, unless a Fatal is processed, run()
\* drains it, closes done once and terminates, and Close returns.
WorkerTerminates ==
  chClosed ~> ((closed /\ wpc = "terminated" /\ nDone = 1) \/ FatalProcessed)

\* C11: the logger has exactly one run() goroutine in every state: New
\* starts one and no SetLevel, SetPrintTime, enqueue or Close starts another,
\* so every receive on logCh is that goroutine's.
OneWorker == workers = 1

\* Every kind of operation has been used: a configuration call, an enqueue
\* that run() received, and a Close that returned.
OneWorkerWitness ==
  /\ workers = 1
  /\ nSets >= 1
  /\ Len(recvLog) >= 1
  /\ closed

\* os.Exit(1) has been executed for a Fatal line.
FatalDone == FatalProcessed /\ wpc # "exit"

NoDoubleClose == panicWhy # "close of closed channel"

\* C15 (as claimed): the threshold run() filters a message against is the
\* value of the latest SetLevel made before that read.
FilterUsesLatest ==
  \A k \in 1..Len(handled) : handled[k].threshold = handled[k].latest

\* run() is at os.Exit(1), or past it, only for a Fatal message.
ExitOnlyOnFatal ==
  (wpc = "exit" \/ proc = "exit1") =>
    (handled # <<>> /\ handled[Len(handled)].level = LevelFatal)

\* The line written for message id is the reset code and the raw text.
RawLine(id) ==
  \E j \in 1..Len(sink) :
    sink[j].id = id /\ sink[j].body = <<Reset>> \o sent[id].msg

\* C16 (as claimed): a message whose level is no named level is written raw
\* under every threshold.
UnknownLevelAlwaysRaw ==
  \A k \in 1..Len(handled) :
    handled[k].level \notin NamedLevels
      => (handled[k].written /\ RawLine(handled[k].id))

\* C16 (amended): a message whose level is no named level passes the filter
\* like any other: it is skipped when its level is below the threshold read
\* for it, else written as the reset code and the raw text with no tag; it
\* never ends the process.
UnknownLevelRaw ==
  /\ \A k \in 1..Len(handled) :
       handled[k].level \notin NamedLevels =>
         /\ handled[k].written <=> handled[k].level >= handled[k].threshold
         /\ handled[k].written => RawLine(handled[k].id)
  /\ ExitOnlyOnFatal

\* A message of a level below Debug was written (after SetLevel to that
\* level), and one above Print was.
UnknownLevelWitness ==
  \E k \in 1..Len(handled) :
    /\ handled[k].level = LevelDebug - 1
    /\ handled[k].written
    /\ \E k2 \in 1..Len(handled) :
         handled[k2].level = LevelPrint + 1 /\ handled[k2].written

\* C17 (as claimed): a Print message is written under every threshold
\* SetLevel can set.
PrintAlwaysWritten ==
  \A k \in 1..Len(handled) :
    handled[k].level = LevelPrint => handled[k].written

\* C17 (amended): under every threshold up to Print, the named levels with
\* Fatal and Print among them, a Print message is written, as the reset code
\* and the highlighted text, and does not end the process.
PrintUnfiltered ==
  /\ \A k \in 1..Len(handled) :
       (handled[k].level = LevelPrint /\ handled[k].threshold <= LevelPrint)
         => /\ handled[k].written
            /\ \E j \in 1..Len(sink) :
                 /\ sink[j].id = handled[k].id
                 /\ sink[j].body \in
                      {<<Reset>> \o c : c \in colorString(sent[handled[k].id].msg)}
  /\ ExitOnlyOnFatal

\* A Print message was written after SetLevel(LevelPrint).
PrintUnfilteredWitness ==
  \E k \in 1..Len(handled) :
    /\ handled[k].level = LevelPrint
    /\ handled[k].seen = {LevelPrint}
    /\ handled[k].written

(***************************************************************************)
(* Properties of colorString.                                              *)
(***************************************************************************)
EscCodes == {Reset, Red, Green, Yellow, Blue, Purple, Magenta, Grey, Cyan}

\* s without its escape codes.
Strip(s) == SelectSeq(s, LAMBDA x : x \notin EscCodes)

EscCount(s) == Len(s) - Len(Strip(s))

\* The occurrences of keywords in s: keyword and position.
Occurrences(s) ==
  {o \in highlights \X (1..Len(s)) : MatchAt(s, o[1].word, o[2])}

\* Two occurrences share a character.
Share(o1, o2) ==
  /\ o1[2] <= o2[2] + Len(o2[1].word) - 1
  /\ o2[2] <= o1[2] + Len(o1[1].word) - 1

NoOverlap(s) ==
  \A o1, o2 \in Occurrences(s) : o1 # o2 => ~ Share(o1, o2)

\* out holds the occurrence of h at position i of the input as
\* <color><keyword><reset>.
WrappedAt(out, h, i) ==
  \E j \in 1..Len(out) :
    /\ out[j] = h.color
    /\ MatchAt(out, h.word, j + 1)
    /\ j + Len(h.word) + 1 <= Len(out)
    /\ out[j + Len(h.word) + 1] = Reset
    /\ Len(Strip(SubSeq(out, 1, j))) = i - 1

\* s read left to right, each keyword met wrapped in its color and a reset.
RECURSIVE WrapFrom(_, _)
WrapFrom(s, i) ==
  IF i > Len(s) THEN <<>>
  ELSE IF \E h \in highlights : MatchAt(s, h.word, i)
  THEN LET h == CHOOSE x \in highlights : MatchAt(s, x.word, i)
       IN  <<h.color>> \o h.word \o <<Reset>> \o WrapFrom(s, i + Len(h.word))
  ELSE <<s[i]>> \o WrapFrom(s, i + 1)

Wrap(s) == WrapFrom(s, 1)

ExampleOut ==
  <<"s", "t", "a", "t", "u", "s", " ", Green, "O", "K", Reset, ",", " ",
    "m", "e", "t", "h", "o", "d", " ", Blue, "G", "E", "T", Reset>>

ColorStringDeterministic ==
  (hlRest = {} /\ NoOverlap(hlIn)) => hlS = Wrap(hlIn)

\* colorString has returned for a text with two different keywords.
DeterministicWitness ==
  /\ hlRest = {}
  /\ hlIn = <<"O", "K", "G", "E", "T">>
  /\ NoOverlap(hlIn)
  /\ Cardinality(Occurrences(hlIn)) = 2

(***************************************************************************)
(* Properties of package conf.                                             *)
(***************************************************************************)
Gets == {i \in 1..Len(getLog) : getLog[i].op = "get"}
Loads == {i \in 1..Len(getLog) : getLog[i].op = "load"}

\* C18: no call of Get returns nil: the process has ended before.
GetNeverReturnsNil == \A i \in Gets : getLog[i].res # NilPtr

\* An interface value whose pointer word belongs to its type word.
Complete(g) == g.ptr.typ = g.typ

\* What the loads in Datas and Fs can store.
Loadable == {decodeBytes(T, d, ft) : T \in ConfTypes, d \in Datas, ft \in FTypes}

\* C19: a load that returns an error has stored nothing in global, a step
\* that changes global is a store of a caller that holds mu for writing and
\* whose decodeBytes gave no error, and what Get finds in global and returns
\* is nil or the conf of one such load, never a mix of two values.
FailedLoadKeepsGlobal ==
  /\ [](\A i \in Loads : getLog[i].err => getLog[i].wrote = {})
  /\ [][global' # global =>
          \E t \in Callers : /\ mu.writer = t
                             /\ cpc[t] = "store"
                             /\ ~ cloc[t].err]_vars
  /\ [](\A t \in Callers : cpc[t] = "check" => Complete(global))
  /\ [](\A i \in Gets : /\ getLog[i].res \in Loadable
                        /\ getLog[i].res.typ \in {"nil", getLog[i].T})

\* A load has failed after one that stored a conf, the conf is still in
\* global, and Get has returned it.
FailedLoadWitness ==
  \E i, j, k \in 1..Len(getLog) :
    /\ i < j /\ j < k
    /\ getLog[i].op = "load" /\ ~ getLog[i].err
    /\ getLog[j].op = "load" /\ getLog[j].err
    /\ getLog[k].op = "get" /\ getLog[k].res # NilPtr
    /\ getLog[k].res = global.ptr

====
